---- MODULE Spec2Model ----
(***************************************************************************)
(* The Connection Hub of PrismaStack/Core: Hub.run, the per-connection     *)
(* readPump / writePump, serveWs, the presence goroutines launched by the  *)
(* Hub and the message submitters (createMessageHandler).                  *)
(*                                                                         *)
(* Unbuffered channels (h.register, h.unregister, h.broadcast) are         *)
(* rendezvous: a sender waits at its send statement and the Hub's receive  *)
(* action takes it.  The buffered channel client.send is a bounded queue.  *)
(***************************************************************************)
EXTENDS Integers, Sequences, FiniteSets, Bags, TLC

\* ---------------------------------------------------------------- bounds
NConns == 2        \* connections that may ever be opened
MaxMsgs == 1       \* messages that may ever be posted
SendCap == 2       \* capacity of client.send (256 in serveWs), scaled down

Conns == 1..NConns

\* ---------------------------------------------------------------- data
NoUser == [ID |-> -1, AvatarURL |-> ""]

\* The sessions table joined with users, as getUserByToken sees it at the
\* moment of a connect: user 1 appears with two avatars (the avatar may be
\* changed between two connects), user 0 is a row whose id is zero.
Tokens == {"", "t0", "t1", "t1b", "t2"}

getUserByToken(token) ==
    CASE token = "t0"  -> [ok |-> TRUE, user |-> [ID |-> 0, AvatarURL |-> ""]]
      [] token = "t1"  -> [ok |-> TRUE, user |-> [ID |-> 1, AvatarURL |-> "a"]]
      [] token = "t1b" -> [ok |-> TRUE, user |-> [ID |-> 1, AvatarURL |-> "b"]]
      [] token = "t2"  -> [ok |-> TRUE, user |-> [ID |-> 2, AvatarURL |-> "a"]]
      [] OTHER         -> [ok |-> FALSE, user |-> NoUser]

UserIds == {1, 2}      \* the ids that can be keys of the Hub's maps

\* json.Marshal(WebSocketMessage{Event: ..., Payload: ...})
WebSocketMessage(event, payload) == [event |-> event, payload |-> payload]

\* c.conn.WriteMessage(websocket.CloseMessage, []byte{})
CloseFrame == [event |-> "close", payload |-> {}]
NoFrame == [event |-> "none", payload |-> {}]

\* ---------------------------------------------------------------- state
VARIABLES
    clients,          \* h.clients: the set of registered connections
    onlineUsers,      \* h.onlineUsers: user id -> User
    connectionCount,  \* h.connectionCount: user id -> int (absent = 0)
    send,             \* client.send: the buffered contents of the channel
    closed,           \* client.send has been closed
    cuser,            \* client.user
    hubpc,            \* "select", or "sendDirect" at client.send <- message
    hubArg,           \* the connection and message of a pending direct send
    pcServe,          \* serveWs: "idle","spawn","done","rejected"
    pcWrite,          \* writePump: "off","range","unreg","done"
    pcRead,           \* readPump: "off","read","done"
    connClosed,       \* c.conn.Close() has been called
    wire,             \* the frame writePump has last wire to c.conn
    tasks,            \* the running goroutines go h.broadcastPresence(), a bag
    posted,           \* number of messages created by createMessageHandler
    crashed,          \* the runtime has stopped the process (fatal error)
    hist,             \* history, per connection: see HistInit
    history           \* whether the goroutines keep the history cands

hubVars == <<clients, onlineUsers, connectionCount, send, closed>>
vars == <<clients, onlineUsers, connectionCount, send, closed, cuser, hubpc,
          hubArg, pcServe, pcWrite, pcRead, connClosed, wire, tasks,
          posted, crashed, hist, history>>

\* evicted: the connection was removed for a full queue; direct: register
\* enqueued a direct snapshot on it; dupUnreg: an unregister request for it
\* was handled when it was not in the set; drained: writePump has taken an
\* event off its queue; offered: the broadcasts the Hub handled while it was
\* in the set; got: the events enqueued on it by broadcasts.
HistInit == [evicted |-> FALSE, direct |-> FALSE, dupUnreg |-> FALSE,
             drained |-> FALSE, offered |-> 0, got |-> 0]

\* ---------------------------------------------------------------- helpers
Count(cc, id) == IF id \in DOMAIN cc THEN cc[id] ELSE 0

MapPut(m, k, v) == [x \in DOMAIN m \cup {k} |-> IF x = k THEN v ELSE m[x]]

MapDelete(m, k) == [x \in DOMAIN m \ {k} |-> m[x]]

\* online := []User{}; for _, user := range m { online = append(online, user) }
\* The order of a range over a map is unspecified: the JSON array is kept
\* as the set of its elements.
Values(m) == {m[k] : k \in DOMAIN m}

\* A launched presence goroutine: it ranges over h.onlineUsers key by key
\* (visited: the keys its iteration has passed), then marshals, then waits
\* at h.broadcast <- message.  cands is history: the lists of the Presence
\* Map as it stood at each moment from the launch to the end of the range
\* (after the range: the one among them that the list built equals, if any).
NewTask == [pc |-> "iter", visited |-> {}, online |-> {}, cands |-> {}]

\* `go h.broadcastPresence()` that starts nothing.
LaunchNothing(ts, n) == ts

\* n executions of `go h.broadcastPresence()`
Launch(ts, n) == IF n = 0 THEN ts ELSE ts (+) [t \in {NewTask} |-> n]

\* The goroutine t moves on to t2, or returns.
Step(ts, t, t2) == (ts (-) SetToBag({t})) (+) SetToBag({t2})
Exit(ts, t) == ts (-) SetToBag({t})

\* History, kept where history is set: every goroutine that has not
\* finished its range notes the list of the Presence Map m the Hub's step
\* has produced.
Notice(ts, m) ==
    LET Noted(t) == IF t.pc = "iter"
                    THEN [t EXCEPT !.cands = @ \cup {Values(m)}]
                    ELSE t
    IN  IF history THEN BagOfAll(Noted, ts) ELSE ts

\* ---------------------------------------------------------------- Hub.run
\* The Hub's own state as one record, so that the body of a case of the
\* select can be computed step by step.  launched counts the
\* `go h.broadcastPresence()` statements executed; fault is a runtime panic
\* (close of a closed channel, send on a closed channel).
HubState == [clients |-> clients, onlineUsers |-> onlineUsers,
             connectionCount |-> connectionCount, send |-> send,
             closed |-> closed, launched |-> 0, fault |-> FALSE]

\* Decrement without delete(h.onlineUsers, id).
DecrementKeepsOnline(h, id) ==
    LET n == Count(h.connectionCount, id) - 1
    IN  IF n = 0
        THEN [h EXCEPT !.connectionCount = MapDelete(@, id),
                       !.launched = @ + 1]
        ELSE [h EXCEPT !.connectionCount = MapPut(@, id, n)]

\* Decrement that launches a presence goroutine whatever the count is.
DecrementLaunchesAlways(h, id) ==
    LET n == Count(h.connectionCount, id) - 1
    IN  IF n = 0
        THEN [h EXCEPT !.onlineUsers = MapDelete(@, id),
                       !.connectionCount = MapDelete(@, id),
                       !.launched = @ + 1]
        ELSE [h EXCEPT !.connectionCount = MapPut(@, id, n),
                       !.launched = @ + 1]

\* Decrement without delete(h.connectionCount, id).
DecrementKeepsZero(h, id) ==
    LET n == Count(h.connectionCount, id) - 1
    IN  IF n = 0
        THEN [h EXCEPT !.onlineUsers = MapDelete(@, id),
                       !.connectionCount = MapPut(@, id, n),
                       !.launched = @ + 1]
        ELSE [h EXCEPT !.connectionCount = MapPut(@, id, n)]

\* h.connectionCount[id]--; if it is 0 now: delete both entries and launch
\* a presence goroutine.
Decrement(h, id) ==
    LET n == Count(h.connectionCount, id) - 1
    IN  IF n = 0
        THEN [h EXCEPT !.onlineUsers = MapDelete(@, id),
                       !.connectionCount = MapDelete(@, id),
                       !.launched = @ + 1]
        ELSE [h EXCEPT !.connectionCount = MapPut(@, id, n)]

\* A close that throws away what the queue holds.
CloseSendDiscards(h, client) ==
    [h EXCEPT !.closed[client] = TRUE, !.fault = @ \/ h.closed[client],
              !.send[client] = <<>>]

\* close(client.send)
CloseSend(h, client) ==
    [h EXCEPT !.closed[client] = TRUE, !.fault = @ \/ h.closed[client]]

\* Unregister without the membership test.
UnregisterAppliesAlways(h, client) == TRUE

\* if _, ok := h.clients[client]; ok
UnregisterApplies(h, client) == client \in h.clients

\* Unregister without delete(h.clients, client).
UnregisterKeepsClient(h, client) ==
    IF ~UnregisterApplies(h, client) THEN h
    ELSE LET h1 == CloseSend(h, client)
         IN  IF cuser[client].ID # 0
             THEN Decrement(h1, cuser[client].ID)
             ELSE h1

\* case client := <-h.unregister
Unregister(h, client) ==
    IF ~UnregisterApplies(h, client) THEN h
    ELSE LET h1 == CloseSend([h EXCEPT !.clients = @ \ {client}], client)
         IN  IF cuser[client].ID # 0
             THEN Decrement(h1, cuser[client].ID)
             ELSE h1

\* Evict without close(client.send).
EvictWithoutClose(h, client) ==
    LET h1 == IF cuser[client].ID # 0
              THEN Decrement(h, cuser[client].ID)
              ELSE h
    IN  [h1 EXCEPT !.clients = @ \ {client}]

\* Evict without the decrement of the count.
EvictSkipsDecrement(h, client) ==
    [CloseSend(h, client) EXCEPT !.clients = @ \ {client}]

\* Evict without delete(h.clients, client).
EvictKeepsClient(h, client) ==
    LET h1 == IF cuser[client].ID # 0
              THEN Decrement(h, cuser[client].ID)
              ELSE h
    IN  CloseSend(h1, client)

\* The default case of the inner select: the queue of client is full.
Evict(h, client) ==
    LET h1 == IF cuser[client].ID # 0
              THEN Decrement(h, cuser[client].ID)
              ELSE h
    IN  [CloseSend(h1, client) EXCEPT !.clients = @ \ {client}]

\* A buffer that takes one event more than its capacity.
HasRoomOffByOne(q) == Len(q) <= SendCap

\* case client.send <- message can proceed: the buffer has room.
HasRoom(q) == Len(q) < SendCap

\* Offer with an empty default case: a full queue drops the event only.
OfferSkipsFull(h, client, message) ==
    IF h.closed[client] THEN [h EXCEPT !.fault = TRUE]
    ELSE IF HasRoom(h.send[client])
         THEN [h EXCEPT !.send[client] = Append(@, message)]
         ELSE h

\* Offer that enqueues the event twice.
OfferTwice(h, client, message) ==
    IF h.closed[client] THEN [h EXCEPT !.fault = TRUE]
    ELSE IF HasRoom(h.send[client])
         THEN [h EXCEPT !.send[client] = Append(Append(@, message), message)]
         ELSE Evict(h, client)

\* Offer that puts the event in front of the queue.
OfferInFront(h, client, message) ==
    IF h.closed[client] THEN [h EXCEPT !.fault = TRUE]
    ELSE IF HasRoom(h.send[client])
         THEN [h EXCEPT !.send[client] = <<message>> \o @]
         ELSE Evict(h, client)

\* select { case client.send <- message: default: ... } for one client
Offer(h, client, message) ==
    IF h.closed[client] THEN [h EXCEPT !.fault = TRUE]
    ELSE IF HasRoom(h.send[client])
         THEN [h EXCEPT !.send[client] = Append(@, message)]
         ELSE Evict(h, client)

\* for client := range h.clients { ... }
RECURSIVE BroadcastLoop(_, _, _)
BroadcastLoop(h, todo, message) ==
    IF todo = {} THEN h
    ELSE LET client == CHOOSE c \in todo : TRUE
         IN  BroadcastLoop(Offer(h, client, message), todo \ {client}, message)

\* A broadcast whose loop ends at the first eviction.
BroadcastStopsAtEvict(h, message) ==
    LET full == {c \in h.clients : ~HasRoom(h.send[c])}
    IN  IF full = {} THEN BroadcastLoop(h, h.clients, message)
        ELSE Evict(h, CHOOSE c \in full : TRUE)

\* case message := <-h.broadcast
Broadcast(h, message) == BroadcastLoop(h, h.clients, message)

\* isNewOnlineUser that is true for every registration.
IsNewOnlineUserAlways(h, user) == TRUE

\* isNewOnlineUser := h.connectionCount[client.user.ID] == 0
IsNewOnlineUser(h, user) == Count(h.connectionCount, user.ID) = 0

\* Register without the test client.user.ID != 0.
RegisterCountsZero(h, client, user) ==
    LET h1 == [h EXCEPT !.clients = @ \cup {client}]
        id == user.ID
        h2 == [h1 EXCEPT !.connectionCount = MapPut(@, id, Count(@, id) + 1)]
    IN  IF IsNewOnlineUser(h, user)
        THEN [h2 EXCEPT !.onlineUsers = MapPut(@, id, user),
                        !.launched = @ + 1]
        ELSE h2

\* Register that runs `go h.broadcastPresence()` in both branches.
RegisterLaunchesAlways(h, client, user) ==
    LET h1 == [h EXCEPT !.clients = @ \cup {client}]
        id == user.ID
    IN  IF id = 0 THEN h1
        ELSE LET h2 == [h1 EXCEPT !.connectionCount =
                                     MapPut(@, id, Count(@, id) + 1),
                                  !.launched = @ + 1]
             IN  IF IsNewOnlineUser(h, user)
                 THEN [h2 EXCEPT !.onlineUsers = MapPut(@, id, user)]
                 ELSE h2

\* Register that stores the user of every registration in h.onlineUsers.
RegisterOverwrites(h, client, user) ==
    LET h1 == [h EXCEPT !.clients = @ \cup {client}]
        id == user.ID
    IN  IF id = 0 THEN h1
        ELSE LET h2 == [h1 EXCEPT !.connectionCount =
                                     MapPut(@, id, Count(@, id) + 1),
                                  !.onlineUsers = MapPut(@, id, user)]
             IN  IF IsNewOnlineUser(h, user)
                 THEN [h2 EXCEPT !.launched = @ + 1]
                 ELSE h2

\* Register without h.clients[client] = true.
RegisterForgetsClient(h, client, user) ==
    LET id == user.ID
    IN  IF id = 0 THEN h
        ELSE LET h2 == [h EXCEPT !.connectionCount =
                                    MapPut(@, id, Count(@, id) + 1)]
             IN  IF IsNewOnlineUser(h, user)
                 THEN [h2 EXCEPT !.onlineUsers = MapPut(@, id, user),
                                 !.launched = @ + 1]
                 ELSE h2

\* Register without `go h.broadcastPresence()`.
RegisterWithoutLaunch(h, client, user) ==
    LET h1 == [h EXCEPT !.clients = @ \cup {client}]
        id == user.ID
    IN  IF id = 0 THEN h1
        ELSE LET h2 == [h1 EXCEPT !.connectionCount =
                                     MapPut(@, id, Count(@, id) + 1)]
             IN  IF IsNewOnlineUser(h, user)
                 THEN [h2 EXCEPT !.onlineUsers = MapPut(@, id, user)]
                 ELSE h2

\* case client := <-h.register, up to the launch or the direct send
Register(h, client, user) ==
    LET h1 == [h EXCEPT !.clients = @ \cup {client}]
        id == user.ID
    IN  IF id = 0 THEN h1
        ELSE LET h2 == [h1 EXCEPT !.connectionCount =
                                     MapPut(@, id, Count(@, id) + 1)]
             IN  IF IsNewOnlineUser(h, user)
                 THEN [h2 EXCEPT !.onlineUsers = MapPut(@, id, user),
                                 !.launched = @ + 1]
                 ELSE h2

\* Whether register takes the else branch: a direct snapshot for the client.
SendsDirect(h, user) ==
    user.ID # 0 /\ ~IsNewOnlineUser(h, user)

\* The Hub's variables after a case body that produced h.
Commit(h, ts) ==
    /\ clients' = h.clients
    /\ onlineUsers' = h.onlineUsers
    /\ connectionCount' = h.connectionCount
    /\ send' = h.send
    /\ closed' = h.closed
    /\ tasks' = Notice(Launch(ts, h.launched), h.onlineUsers)
    /\ crashed' = h.fault

HubReady == hubpc = "select" /\ ~crashed

\* ---------------------------------------------------------------- Init
Init ==
    /\ clients = {}
    /\ onlineUsers = <<>>
    /\ connectionCount = <<>>
    /\ send = [c \in Conns |-> <<>>]
    /\ closed = [c \in Conns |-> FALSE]
    /\ cuser = [c \in Conns |-> NoUser]
    /\ hubpc = "select"
    /\ hubArg = [conn |-> 0, message |-> NoFrame]
    /\ pcServe = [c \in Conns |-> "idle"]
    /\ pcWrite = [c \in Conns |-> "off"]
    /\ pcRead = [c \in Conns |-> "off"]
    /\ connClosed = [c \in Conns |-> FALSE]
    /\ wire = [c \in Conns |-> NoFrame]
    /\ tasks = EmptyBag
    /\ posted = 0
    /\ crashed = FALSE
    /\ hist = [c \in Conns |-> HistInit]
    /\ history = FALSE

pumpVars == <<pcWrite, pcRead, connClosed, wire>>

\* ---------------------------------------------------------------- serveWs
\* A serveWs that registers a Client again after its pumps were started.
NextConnReuses(c) == pcServe[c] \in {"idle", "done"}

\* Connections are numbered in the order in which serveWs is entered.
NextConn(c) == pcServe[c] = "idle" /\ \A d \in Conns : d < c => pcServe[d] # "idle"

\* Users are numbered in the order of their first connect: user 2, and the
\* changed avatar of user 1, appear only after user 1 has connected.
InOrder(c, token) ==
    token \in {"t1b", "t2"} => \E d \in Conns : d < c /\ cuser[d].ID = 1

\* A serveWs that answers with the error after it has registered a client.
ServeWsRejectLate(c, token) ==
    /\ HubReady
    /\ NextConn(c)
    /\ ~getUserByToken(token).ok
    /\ clients' = clients \cup {c}
    /\ pcServe' = [pcServe EXCEPT ![c] = "rejected"]
    /\ UNCHANGED <<onlineUsers, connectionCount, send, closed, cuser, hubpc,
                   hubArg, pumpVars, tasks, posted, crashed, hist>>
    /\ UNCHANGED history

\* token == "" or getUserByToken fails: http.Error and return.
ServeWsReject(c, token) ==
    /\ ~crashed
    /\ NextConn(c)
    /\ ~getUserByToken(token).ok
    /\ pcServe' = [pcServe EXCEPT ![c] = "rejected"]
    /\ UNCHANGED <<hubVars, cuser, hubpc, hubArg, pumpVars, tasks, posted,
                   crashed, hist>>
    /\ UNCHANGED history

\* client := &Client{..., send: make(chan []byte, 256), user: *user};
\* client.hub.register <- client meets the Hub's case client := <-h.register
\* (the channel is unbuffered), and the Hub runs the case up to the launch
\* of the presence goroutine or up to the direct send.
ServeWsRegister(c, token) ==
    /\ HubReady
    /\ NextConn(c)
    /\ InOrder(c, token)
    /\ getUserByToken(token).ok
    /\ LET user == getUserByToken(token).user
           h == Register(HubState, c, user)
       IN  /\ cuser' = [cuser EXCEPT ![c] = user]
           /\ Commit(h, tasks)
           /\ IF SendsDirect(HubState, user)
              THEN /\ hubpc' = "sendDirect"
                   /\ hubArg' = [conn |-> c,
                                 message |-> WebSocketMessage("presence_update",
                                               Values(onlineUsers))]
              ELSE UNCHANGED <<hubpc, hubArg>>
    /\ pcServe' = [pcServe EXCEPT ![c] = "spawn"]
    /\ UNCHANGED <<pumpVars, posted, hist>>
    /\ UNCHANGED history

\* A serveWs that starts the pumps before it registers the client.
ServeWsSpawnEarly(c) ==
    /\ ~crashed
    /\ pcWrite[c] = "off"
    /\ \/ pcServe[c] = "spawn"
       \/ NextConn(c)
    /\ pcServe' = [pcServe EXCEPT ![c] = IF @ = "spawn" THEN "done" ELSE @]
    /\ pcWrite' = [pcWrite EXCEPT ![c] = "range"]
    /\ pcRead' = [pcRead EXCEPT ![c] = "read"]
    /\ UNCHANGED <<hubVars, cuser, hubpc, hubArg, connClosed, wire, tasks,
                   posted, crashed, hist>>
    /\ UNCHANGED history

\* go client.writePump(); go client.readPump()
ServeWsSpawn(c) ==
    /\ ~crashed
    /\ pcServe[c] = "spawn"
    /\ pcServe' = [pcServe EXCEPT ![c] = "done"]
    /\ pcWrite' = [pcWrite EXCEPT ![c] = "range"]
    /\ pcRead' = [pcRead EXCEPT ![c] = "read"]
    /\ UNCHANGED <<hubVars, cuser, hubpc, hubArg, connClosed, wire, tasks,
                   posted, crashed, hist>>
    /\ UNCHANGED history

\* ---------------------------------------------------------------- Hub.run
\* client.send <- message, the blocking send that ends the register case
HubSendDirect ==
    /\ ~crashed
    /\ hubpc = "sendDirect"
    /\ LET c == hubArg.conn
       IN  /\ HasRoom(send[c])
           /\ send' = [send EXCEPT ![c] = Append(@, hubArg.message)]
           /\ hist' = [hist EXCEPT ![c].direct = TRUE]
           /\ crashed' = closed[c]
    /\ hubpc' = "select"
    /\ hubArg' = [conn |-> 0, message |-> NoFrame]
    /\ UNCHANGED <<clients, onlineUsers, connectionCount, closed, cuser,
                   pcServe, pumpVars, tasks, posted>>
    /\ UNCHANGED history

\* case client := <-h.unregister meets c.hub.unregister <- c of who:
\* "w", writePump after a failed write, or "r", the deferred function of
\* readPump after c.conn.ReadMessage() returned an error (the peer closed,
\* the network failed, or the conn was closed by this side).  The sender
\* then returns and c.conn.Close() runs.
HubUnregister(c, who) ==
    /\ HubReady
    /\ \/ who = "w" /\ pcWrite[c] = "unreg"
          /\ pcWrite' = [pcWrite EXCEPT ![c] = "done"] /\ pcRead' = pcRead
       \/ who = "r" /\ pcRead[c] = "read"
          /\ pcRead' = [pcRead EXCEPT ![c] = "done"] /\ pcWrite' = pcWrite
    /\ connClosed' = [connClosed EXCEPT ![c] = TRUE]
    /\ LET h == Unregister(HubState, c)
           applied == UnregisterApplies(HubState, c)
       IN  /\ Commit(h, tasks)
           /\ hist' = [hist EXCEPT ![c].dupUnreg = @ \/ ~applied]
    /\ UNCHANGED <<cuser, hubpc, hubArg, pcServe, wire, posted>>
    /\ UNCHANGED history

\* The body of case message := <-h.broadcast, and its history.
HandleBroadcast(message, ts) ==
    LET h == Broadcast(HubState, message)
    IN  /\ Commit(h, ts)
        /\ hist' = [c \in Conns |->
                     [hist[c] EXCEPT
                        !.evicted = @ \/ (c \in clients /\ c \notin h.clients),
                        !.offered = IF c \in clients THEN @ + 1 ELSE @,
                        !.got = @ + Len(h.send[c]) - Len(send[c])]]

\* case message := <-h.broadcast meets hub.broadcast <- wrappedMsg of
\* createMessageHandler: the message was inserted and read back, and
\* wrappedMsg is the envelope of the record.
HubBroadcastMsg ==
    /\ HubReady
    /\ posted < MaxMsgs
    /\ posted' = posted + 1
    /\ HandleBroadcast(WebSocketMessage("new_message", [id |-> posted + 1]),
                       tasks)
    /\ UNCHANGED <<cuser, hubpc, hubArg, pcServe, pumpVars>>
    /\ UNCHANGED history

\* case message := <-h.broadcast, sent by the presence goroutine t
HubBroadcastPresence(t) ==
    /\ HubReady
    /\ BagIn(t, tasks)
    /\ t.pc = "send"
    /\ HandleBroadcast(WebSocketMessage("presence_update", t.online),
                       Exit(tasks, t))
    /\ UNCHANGED <<cuser, hubpc, hubArg, pcServe, pumpVars, posted>>
    /\ UNCHANGED history

\* ------------------------------------------------------ broadcastPresence
\* One step of `for _, user := range h.onlineUsers` in a goroutine of its
\* own: the iteration passes key id and appends the user it finds there, if
\* any.  The map is read without synchronisation, so the Hub may change it
\* between two steps.  After the last key: json.Marshal twice, then the
\* goroutine waits at h.broadcast <- message.
PresenceIter(t, id) ==
    /\ ~crashed
    /\ BagIn(t, tasks)
    /\ t.pc = "iter"
    /\ id \in UserIds \ t.visited
    /\ LET visited == t.visited \cup {id}
           online == IF id \in DOMAIN onlineUsers
                     THEN t.online \cup {onlineUsers[id]}
                     ELSE t.online
       IN  tasks' = Step(tasks, t,
                       [pc |-> IF visited = UserIds THEN "send" ELSE "iter",
                        visited |-> IF visited = UserIds THEN {} ELSE visited,
                        online |-> online,
                        cands |-> IF visited = UserIds
                                  THEN t.cands \cap {online}
                                  ELSE t.cands])
    /\ UNCHANGED <<hubVars, cuser, hubpc, hubArg, pcServe, pumpVars, posted,
                   crashed, hist>>
    /\ UNCHANGED history

\* The requests waiting at the Hub's select whose case body writes
\* h.onlineUsers.
WritesOnlineUsers ==
    \/ \E c \in Conns, token \in Tokens :
          /\ NextConn(c)
          /\ InOrder(c, token)
          /\ getUserByToken(token).ok
          /\ Register(HubState, c, getUserByToken(token).user).onlineUsers
                # onlineUsers
    \/ \E c \in Conns : /\ pcWrite[c] = "unreg" \/ pcRead[c] = "read"
                        /\ Unregister(HubState, c).onlineUsers # onlineUsers
    \/ /\ posted < MaxMsgs
       /\ Broadcast(HubState, NoFrame).onlineUsers # onlineUsers
    \/ \E t \in BagToSet(tasks) :
          /\ t.pc = "send"
          /\ Broadcast(HubState, WebSocketMessage("presence_update",
                         t.online)).onlineUsers # onlineUsers

\* The Hub writes h.onlineUsers while a presence goroutine ranges over it:
\* the Go runtime may detect it ("fatal error: concurrent map iteration and
\* map write") and stop the process.
MapRaceFatal ==
    /\ HubReady
    /\ \E t \in BagToSet(tasks) : t.pc = "iter"
    /\ WritesOnlineUsers
    /\ crashed' = TRUE
    /\ UNCHANGED <<hubVars, cuser, hubpc, hubArg, pcServe, pumpVars, tasks,
                   posted, hist>>
    /\ UNCHANGED history

\* ---------------------------------------------------------------- pumps
\* A writePump that goes on with the next event after a failed write.
WritePumpWriteGoesOn(c, ok) ==
    /\ ~crashed
    /\ pcWrite[c] = "range"
    /\ send[c] # <<>>
    /\ ok => ~connClosed[c]
    /\ send' = [send EXCEPT ![c] = Tail(@)]
    /\ hist' = [hist EXCEPT ![c].drained = TRUE]
    /\ wire' = IF ok THEN [wire EXCEPT ![c] = Head(send[c])] ELSE wire
    /\ UNCHANGED <<clients, onlineUsers, connectionCount, closed, cuser,
                   hubpc, hubArg, pcServe, pcWrite, pcRead, connClosed, tasks,
                   posted, crashed>>
    /\ UNCHANGED history

\* for message := range c.send { c.conn.WriteMessage(TextMessage, message) }
\* with ok the outcome of the write; a write on a closed conn fails.
WritePumpWrite(c, ok) ==
    /\ ~crashed
    /\ pcWrite[c] = "range"
    /\ send[c] # <<>>
    /\ ok => ~connClosed[c]
    /\ send' = [send EXCEPT ![c] = Tail(@)]
    /\ hist' = [hist EXCEPT ![c].drained = TRUE]
    /\ IF ok
       THEN /\ wire' = [wire EXCEPT ![c] = Head(send[c])]
            /\ pcWrite' = pcWrite
       ELSE /\ wire' = wire
            /\ pcWrite' = [pcWrite EXCEPT ![c] = "unreg"]
    /\ UNCHANGED <<clients, onlineUsers, connectionCount, closed, cuser,
                   hubpc, hubArg, pcServe, pcRead, connClosed, tasks, posted,
                   crashed>>
    /\ UNCHANGED history

\* The range ends: the channel is closed and drained.
\* c.conn.WriteMessage(CloseMessage, ...), then the deferred c.conn.Close().
WritePumpEnd(c) ==
    /\ ~crashed
    /\ pcWrite[c] = "range"
    /\ send[c] = <<>>
    /\ closed[c]
    /\ wire' = [wire EXCEPT ![c] =
                     IF connClosed[c] THEN @ ELSE CloseFrame]
    /\ connClosed' = [connClosed EXCEPT ![c] = TRUE]
    /\ pcWrite' = [pcWrite EXCEPT ![c] = "done"]
    /\ UNCHANGED <<hubVars, cuser, hubpc, hubArg, pcServe, pcRead, tasks,
                   posted, crashed, hist>>
    /\ UNCHANGED history

\* ---------------------------------------------------------------- Next
Next ==
    \/ \E c \in Conns, token \in Tokens : ServeWsReject(c, token)
    \/ \E c \in Conns, token \in Tokens : ServeWsRegister(c, token)
    \/ \E c \in Conns : ServeWsSpawn(c)
    \/ HubSendDirect
    \/ \E c \in Conns, who \in {"w", "r"} : HubUnregister(c, who)
    \/ HubBroadcastMsg
    \/ \E t \in BagToSet(tasks) : HubBroadcastPresence(t)
    \/ \E t \in BagToSet(tasks), id \in UserIds : PresenceIter(t, id)
    \/ MapRaceFatal
    \/ \E c \in Conns, ok \in BOOLEAN : WritePumpWrite(c, ok)
    \/ \E c \in Conns : WritePumpEnd(c)

Spec == Init /\ [][Next]_vars

\* The steps of the program when the connects carry the given tokens only.
NextOf(tokens) ==
    \/ \E c \in Conns, token \in tokens : ServeWsReject(c, token)
    \/ \E c \in Conns, token \in tokens : ServeWsRegister(c, token)
    \/ \E c \in Conns : ServeWsSpawn(c)
    \/ HubSendDirect
    \/ \E c \in Conns, who \in {"w", "r"} : HubUnregister(c, who)
    \/ HubBroadcastMsg
    \/ \E t \in BagToSet(tasks) : HubBroadcastPresence(t)
    \/ \E t \in BagToSet(tasks), id \in UserIds : PresenceIter(t, id)
    \/ MapRaceFatal
    \/ \E c \in Conns, ok \in BOOLEAN : WritePumpWrite(c, ok)
    \/ \E c \in Conns : WritePumpEnd(c)

\* The one user of the specifications below.
OneUser == {"", "t1"}

\* json.Marshal returns an error in the else branch of the register case:
\* log.Printf and continue, after the bookkeeping of the case and without
\* client.send <- message.  A variant that continues before the bookkeeping:
MarshalFailsEarly(c, token) ==
    /\ HubReady
    /\ NextConn(c)
    /\ InOrder(c, token)
    /\ getUserByToken(token).ok
    /\ SendsDirect(HubState, getUserByToken(token).user)
    /\ cuser' = [cuser EXCEPT ![c] = getUserByToken(token).user]
    /\ pcServe' = [pcServe EXCEPT ![c] = "spawn"]
    /\ UNCHANGED <<hubVars, hubpc, hubArg, pumpVars, tasks, posted, crashed,
                   hist>>
    /\ UNCHANGED history

MarshalFailsDirect(c, token) ==
    /\ HubReady
    /\ NextConn(c)
    /\ InOrder(c, token)
    /\ getUserByToken(token).ok
    /\ LET user == getUserByToken(token).user
       IN  /\ SendsDirect(HubState, user)
           /\ cuser' = [cuser EXCEPT ![c] = user]
           /\ Commit(Register(HubState, c, user), tasks)
    /\ pcServe' = [pcServe EXCEPT ![c] = "spawn"]
    /\ UNCHANGED <<hubpc, hubArg, pumpVars, posted, hist>>
    /\ UNCHANGED history

\* json.Marshal returns an error in broadcastPresence: log.Printf and
\* return, without h.broadcast <- message.
MarshalFailsPresence(t) ==
    /\ ~crashed
    /\ BagIn(t, tasks)
    /\ t.pc = "send"
    /\ tasks' = Exit(tasks, t)
    /\ UNCHANGED <<hubVars, cuser, hubpc, hubArg, pcServe, pumpVars, posted,
                   crashed, hist>>
    /\ UNCHANGED history

\* The program with json.Marshal allowed to return an error wherever a
\* presence envelope is serialized, with every request made for one user
\* (a direct snapshot goes to the second connection of a user).
FaultNext ==
    \/ NextOf(OneUser)
    \/ \E c \in Conns, token \in OneUser : MarshalFailsDirect(c, token)
    \/ \E t \in BagToSet(tasks) : MarshalFailsPresence(t)

FaultSpec == Init /\ [][FaultNext]_vars

\* The program with the history of the Presence Map kept in its goroutines.
HistoryInit ==
    /\ clients = {}
    /\ onlineUsers = <<>>
    /\ connectionCount = <<>>
    /\ send = [c \in Conns |-> <<>>]
    /\ closed = [c \in Conns |-> FALSE]
    /\ cuser = [c \in Conns |-> NoUser]
    /\ hubpc = "select"
    /\ hubArg = [conn |-> 0, message |-> NoFrame]
    /\ pcServe = [c \in Conns |-> "idle"]
    /\ pcWrite = [c \in Conns |-> "off"]
    /\ pcRead = [c \in Conns |-> "off"]
    /\ connClosed = [c \in Conns |-> FALSE]
    /\ wire = [c \in Conns |-> NoFrame]
    /\ tasks = EmptyBag
    /\ posted = 0
    /\ crashed = FALSE
    /\ hist = [c \in Conns |-> HistInit]
    /\ history = TRUE

\* The users of the history specification: two users, one connect each.
TwoUsers == {"", "t1", "t2"}

HistorySpec == HistoryInit /\ [][NextOf(TwoUsers)]_vars

\* The same program with every request made for one user, under the
\* scheduling of the Go runtime: a goroutine that can take a step is not
\* held back for ever, and a sender waiting at a channel of the Hub is
\* received once the Hub is back at its select.  Nothing is assumed about
\* the clients: connects, read errors and posted messages need not happen.
FairNext == NextOf(OneUser)

FairSpec ==
    /\ Init /\ [][FairNext]_vars
    /\ WF_vars(HubSendDirect)
    /\ WF_vars(\E t \in BagToSet(tasks) : HubBroadcastPresence(t))
    /\ WF_vars(\E t \in BagToSet(tasks), id \in UserIds : PresenceIter(t, id))
    /\ \A c \in Conns :
          /\ WF_vars(ServeWsSpawn(c))
          /\ WF_vars(HubUnregister(c, "w"))
          /\ WF_vars(\E ok \in BOOLEAN : WritePumpWrite(c, ok))
          /\ WF_vars(WritePumpEnd(c))

TypeOK ==
    /\ clients \subseteq Conns
    /\ DOMAIN onlineUsers \subseteq UserIds
    /\ \A c \in Conns : Len(send[c]) <= SendCap
    /\ BagCardinality(tasks) <= 2 * NConns
    /\ history \in BOOLEAN

\* ================================================================ claims
\* How a step shows which request the Hub handled.
MsgEnvelope == WebSocketMessage("new_message", [id |-> posted + 1])
IsMsgBroadcast == posted' = posted + 1
IsPresenceBroadcast(t) ==
    BagIn(t, tasks) /\ t.pc = "send" /\ CopiesIn(t, tasks') = CopiesIn(t, tasks) - 1
PresenceEnvelope(t) == WebSocketMessage("presence_update", t.online)
IsUnregister(c) ==
    \/ pcWrite[c] = "unreg" /\ pcWrite'[c] = "done"
    \/ pcRead[c] = "read" /\ pcRead'[c] = "done"
Registered(c) == pcServe[c] \in {"spawn", "done"}
AllIds == UserIds \cup {0}

\* The envelopes that wait at h.broadcast, submitted by other goroutines.
Independent ==
    {MsgEnvelope} \cup
        {PresenceEnvelope(t) : t \in {u \in BagToSet(tasks) : u.pc = "send"}}

\* The states of the Hub after the case body of each request that the Hub
\* may receive: a register request of a connection not yet registered, for
\* each user a token resolves to, an unregister request of any connection,
\* and a broadcast request of each envelope that waits.
Registrations ==
    {Register(HubState, c, getUserByToken(token).user) :
        c \in {d \in Conns : pcServe[d] = "idle"},
        token \in {k \in Tokens : getUserByToken(k).ok}}
Handled ==
    Registrations
      \cup {Unregister(HubState, c) : c \in Conns}
      \cup {Broadcast(HubState, m) : m \in Independent}

\* C1: in every state the Hub reaches, a user id is a key of onlineUsers if
\* and only if its connectionCount entry is greater than 0.
C1_PresenceIffCount ==
    \A id \in AllIds :
        id \in DOMAIN onlineUsers <=> Count(connectionCount, id) > 0

\* An eviction has taken a user offline while another user stays online.
C1_Witness ==
    \E c, d \in Conns :
        /\ hist[c].evicted
        /\ cuser[c].ID # 0
        /\ cuser[c].ID \notin DOMAIN onlineUsers
        /\ d \in clients
        /\ cuser[d].ID \in DOMAIN onlineUsers

\* C2: writePump and readPump of a connection have been started before its
\* register request is submitted to the Hub (here: before the Hub has
\* taken it).
C2_PumpsBeforeRegister ==
    \A c \in Conns : Registered(c) => pcWrite[c] # "off" /\ pcRead[c] # "off"

\* C3: only the Hub's task reads and writes the maps, so the Hub never
\* writes h.onlineUsers while another task is in the middle of reading it.
C3_NoReadInterleavesHubWrite ==
    [][(\E t \in BagToSet(tasks) : t.pc = "iter" /\ t.visited # {})
          => onlineUsers' = onlineUsers]_vars

\* What a broadcast of message does to a connection whose queue is full.
FullIsEvicted(message) ==
    \A c \in clients :
        ~HasRoom(send[c]) =>
            c \notin clients' /\ closed'[c] /\ send'[c] = send[c]

\* C4: the Hub never blocks in a broadcast: whenever a broadcast request
\* waits at the select the Hub can take it, whatever the queues hold, it is
\* back at the select afterwards, and a connection whose queue is full is
\* evicted.
C4_BroadcastNeverBlocks ==
    /\ [](HubReady =>
             /\ posted < MaxMsgs => ENABLED HubBroadcastMsg
             /\ \A t \in BagToSet(tasks) :
                    t.pc = "send" => ENABLED HubBroadcastPresence(t))
    /\ [][ /\ IsMsgBroadcast =>
                 FullIsEvicted(MsgEnvelope) /\ hubpc' = "select" /\ ~crashed'
            /\ \A t \in BagToSet(tasks) :
                 IsPresenceBroadcast(t) =>
                    FullIsEvicted(PresenceEnvelope(t)) /\ hubpc' = "select"
                    /\ ~crashed'
          ]_vars

\* A broadcast has met a full queue.
C4_Witness == \E c \in Conns : hist[c].evicted

\* A request waits at one of the Hub's channels.
RequestWaits ==
    \/ \E t \in BagToSet(tasks) : t.pc = "send"
    \/ \E c \in Conns : pcWrite[c] = "unreg"

\* C5: the direct snapshot of register always finds room, and a request
\* that waits at the Hub's channels can still be taken: the Hub's loop
\* has not stopped for good.
C5_EveryRequestServed ==
    /\ hubpc = "sendDirect" => HasRoom(send[hubArg.conn])
    /\ RequestWaits => ~crashed

\* C6: an unregister request for a connection that is not in the set
\* changes no Hub state, closes no queue and launches no presence
\* broadcast: in every state the case body, run for such a connection,
\* takes the branch that does nothing and leaves the Hub as it is.
C6_UnregisterIdempotent ==
    \A c \in Conns \ clients :
        /\ ~UnregisterApplies(HubState, c)
        /\ Unregister(HubState, c) = HubState

\* A second unregister request has been handled for a connection.
C6_Witness == \E c \in Conns : hist[c].dupUnreg /\ closed[c]

\* C7: a connection that is offered SendCap + 1 broadcasts while its
\* writePump takes nothing is evicted on the last of them with at most
\* SendCap events enqueued (without a direct snapshot it is not evicted
\* earlier), and no queue ever holds more than SendCap; every connection
\* still registered has had every broadcast offered to it enqueued.
C7_Backpressure ==
    /\ \A c \in Conns :
          /\ Len(send[c]) <= SendCap
          /\ ~hist[c].drained =>
                /\ hist[c].got <= SendCap
                /\ hist[c].offered <= SendCap + 1
                /\ hist[c].offered = SendCap + 1 =>
                      /\ hist[c].evicted
                      /\ c \notin clients
                      /\ hist[c].got = SendCap
                /\ (hist[c].evicted /\ ~hist[c].direct) =>
                      hist[c].offered = SendCap + 1
    /\ \A d \in clients : hist[d].got = hist[d].offered

\* One connection was evicted on its (SendCap + 1)-th broadcast without a
\* drain while another one has received SendCap + 1 broadcasts.
C7_Witness ==
    \E c, d \in Conns :
        /\ c # d
        /\ ~hist[c].drained
        /\ hist[c].evicted
        /\ hist[c].offered = SendCap + 1
        /\ d \in clients
        /\ hist[d].offered >= SendCap + 1
        /\ hist[d].got = hist[d].offered

\* C8: a connection has enqueued every broadcast the Hub handled while it
\* was in the set, except the one it was evicted on, and none outside.
C8_EveryBroadcastEnqueued ==
    \A c \in Conns :
        /\ hist[c].got = hist[c].offered - (IF hist[c].evicted THEN 1 ELSE 0)
        /\ ~Registered(c) => hist[c].got = 0

\* An evicted connection and an unregistered one both received broadcasts.
C8_Witness ==
    \E c, d \in Conns :
        /\ hist[c].evicted /\ hist[c].got >= 1
        /\ closed[d] /\ ~hist[d].evicted /\ hist[d].got >= 1

\* The queues after a broadcast of message hold exactly one more copy of it
\* for each connection in `to`.
OneCopy(message, to) ==
    \A c \in to : Broadcast(HubState, message).send[c] = Append(send[c], message)

\* C9 as stated: each broadcast request appends exactly one copy of the
\* submitted envelope to the queue of every connection registered at that
\* time.
C9_EveryRegisteredGetsOneCopy ==
    \A m \in Independent : OneCopy(m, clients)

\* C9, amended: each broadcast request appends exactly one copy of the
\* submitted envelope to the queue of every registered connection whose
\* queue is not full, and changes no other queue.
WithRoom == {c \in clients : HasRoom(send[c])}

C9_OneCopyWhereRoom ==
    \A m \in Independent :
        /\ OneCopy(m, WithRoom)
        /\ \A c \in Conns \ WithRoom :
              Broadcast(HubState, m).send[c] = send[c]

\* The same new_message envelope sits in the queues of two connections.
C9_Witness ==
    \E c, d \in Conns :
        /\ c # d
        /\ \E i \in DOMAIN send[c], j \in DOMAIN send[d] :
              /\ send[c][i].event = "new_message"
              /\ send[c][i] = send[d][j]

\* The envelopes a step of the Hub may enqueue.
Submitted ==
    {MsgEnvelope, hubArg.message}
        \cup {PresenceEnvelope(t) : t \in BagToSet(tasks)}

\* C10: per connection, the Hub enqueues behind everything enqueued
\* before, one request at a time (the same envelope on every queue it
\* touches), and writePump takes the oldest event and writes it.
C10_Fifo ==
    [][ /\ \A c \in Conns :
              \/ send'[c] = send[c]
              \/ /\ send[c] # <<>>
                 /\ send'[c] = Tail(send[c])
                 /\ wire'[c] = Head(send[c]) \/ pcWrite'[c] = "unreg"
              \/ \E m \in Submitted : send'[c] = Append(send[c], m)
        /\ \E m \in Submitted :
              \A c \in Conns :
                  Len(send'[c]) > Len(send[c]) => send'[c] = Append(send[c], m)
      ]_vars

\* A frame has been written while two different events wait behind it.
C10_Witness ==
    \E c \in Conns :
        /\ wire[c].event \in {"new_message", "presence_update"}
        /\ Len(send[c]) = 2
        /\ send[c][1] # send[c][2]
        /\ wire[c] # send[c][1]

\* The Hub takes the register request of connection c in this step.
IsRegister(c) == pcServe[c] = "idle" /\ pcServe'[c] = "spawn"

\* The connections of user id in the Connection Set.
ConnsOf(id) == {d \in clients : cuser[d].ID = id}

\* C11: when register is handled for a connection of a user (id # 0; id 0
\* is the zero User, see C35) who has no other registered connection, the
\* connection joins the set, the count becomes 1, the user enters the
\* Presence Map with this connection's snapshot, exactly one presence
\* goroutine is launched, and the handling enqueues nothing directly.
C11_FirstRegistration ==
    [][\A c \in Conns :
          (IsRegister(c) /\ cuser'[c].ID # 0 /\ ConnsOf(cuser'[c].ID) = {}) =>
              /\ clients' = clients \cup {c}
              /\ Count(connectionCount', cuser'[c].ID) = 1
              /\ cuser'[c].ID \notin DOMAIN onlineUsers
              /\ onlineUsers' = MapPut(onlineUsers, cuser'[c].ID, cuser'[c])
              /\ tasks' = Notice(tasks (+) SetToBag({NewTask}), onlineUsers')
              /\ send' = send
              /\ hubpc' = "select"
      ]_vars

\* A second user has just registered a first connection while another
\* user's connection is in the set.
C11_Witness ==
    \E c, d \in Conns :
        /\ pcServe[c] = "spawn" /\ c \in clients
        /\ d \in clients
        /\ cuser[c].ID # 0 /\ cuser[d].ID # 0
        /\ cuser[c].ID # cuser[d].ID
        /\ Count(connectionCount, cuser[c].ID) = 1
        /\ send[c] = <<>>

\* C12: when register is handled for a further connection of a user who is
\* already online, the count grows by one (to 2 for the second connection),
\* the Presence Map is unchanged, no presence goroutine is launched, and
\* the Hub ends the case by enqueuing exactly one presence snapshot, the
\* list of the Presence Map, on the new connection only.
C12_SecondRegistration ==
    [][ /\ \A c \in Conns :
             (IsRegister(c) /\ ConnsOf(cuser'[c].ID) # {}
                            /\ cuser'[c].ID # 0) =>
                 /\ clients' = clients \cup {c}
                 /\ Count(connectionCount', cuser'[c].ID) =
                       Cardinality(ConnsOf(cuser'[c].ID)) + 1
                 /\ Cardinality(ConnsOf(cuser'[c].ID)) = 1 =>
                       connectionCount'[cuser'[c].ID] = 2
                 /\ onlineUsers' = onlineUsers
                 /\ tasks' = Notice(tasks, onlineUsers)
                 /\ send' = send
                 /\ hubpc' = "sendDirect"
                 /\ hubArg' = [conn |-> c,
                               message |-> WebSocketMessage("presence_update",
                                             Values(onlineUsers))]
        /\ hubpc = "sendDirect" =>
             /\ UNCHANGED <<clients, onlineUsers, connectionCount, closed>>
             /\ \/ /\ hubpc' = "sendDirect"
                   /\ \A d \in Conns : Len(send'[d]) <= Len(send[d])
                \/ /\ hubpc' = "select"
                   /\ tasks' = tasks
                   /\ send' = [send EXCEPT
                                 ![hubArg.conn] = Append(@, hubArg.message)]
      ]_vars

\* The second connection of a user holds its direct snapshot and the
\* first one holds nothing.
C12_Witness ==
    \E c, d \in Conns :
        /\ c # d
        /\ {c, d} \subseteq clients
        /\ cuser[c].ID = cuser[d].ID
        /\ cuser[c].ID # 0
        /\ connectionCount[cuser[c].ID] = 2
        /\ hist[d].direct
        /\ send[d] = <<WebSocketMessage("presence_update", Values(onlineUsers))>>
        /\ send[c] = <<>>

\* C13: unregistering one of several registered connections of a user
\* (id # 0) decrements the count, leaves the Presence Map as it is and
\* launches no presence goroutine; unregistering the user's last connection
\* removes the user from both maps and launches exactly one.
C13_UnregisterPresence ==
    [][\A c \in Conns :
          (IsUnregister(c) /\ c \in clients /\ cuser[c].ID # 0) =>
              /\ clients' = clients \ {c}
              /\ closed'[c]
              /\ IF Cardinality(ConnsOf(cuser[c].ID)) > 1
                 THEN /\ Count(connectionCount', cuser[c].ID) =
                            Count(connectionCount, cuser[c].ID) - 1
                      /\ Count(connectionCount', cuser[c].ID) > 0
                      /\ onlineUsers' = onlineUsers
                      /\ tasks' = Notice(tasks, onlineUsers)
                 ELSE /\ cuser[c].ID \in DOMAIN onlineUsers
                      /\ onlineUsers' = MapDelete(onlineUsers, cuser[c].ID)
                      /\ cuser[c].ID \notin DOMAIN connectionCount'
                      /\ tasks' = Notice(tasks (+) SetToBag({NewTask}),
                                          onlineUsers')
      ]_vars

\* Two connections of one user were registered together (the second got a
\* direct snapshot) and both have been unregistered, neither by eviction:
\* the user is offline.
C13_Witness ==
    \E c, d \in Conns :
        /\ c # d
        /\ cuser[c].ID = cuser[d].ID /\ cuser[c].ID # 0
        /\ hist[d].direct
        /\ closed[c] /\ closed[d]
        /\ ~hist[c].evicted /\ ~hist[d].evicted
        /\ cuser[c].ID \notin DOMAIN onlineUsers

\* Nothing is pending: no presence goroutine runs, no unregister request
\* waits, and the Hub is at its select.
Quiescent ==
    /\ HubReady
    /\ tasks = EmptyBag
    /\ \A c \in Conns : pcWrite[c] # "unreg" /\ pcServe[c] # "spawn"

\* The positions of the presence_update events in the queue of c.
PresenceAt(c) == {i \in DOMAIN send[c] : send[c][i].event = "presence_update"}

\* The last presence_update enqueued on c, as far as the queue shows it.
LastPresence(c) ==
    send[c][CHOOSE i \in PresenceAt(c) : \A j \in PresenceAt(c) : j <= i]

\* C14: once everything pending has been handled, the last presence_update
\* enqueued on every still-registered connection lists exactly the users
\* of the Presence Map.
C14_PresenceEventuallyConsistent ==
    Quiescent =>
        \A c \in clients :
            PresenceAt(c) # {} =>
                LastPresence(c).payload = Values(onlineUsers)

\* C15: the Hub never sends on h.broadcast itself.  A step of the Hub that
\* changes the Presence Map hands each presence broadcast to a new
\* goroutine, enqueues nothing but the request it is handling (which an
\* other goroutine had submitted before), and leaves the Hub at its
\* select, able to take the next request.
C15_NoSelfSubmission ==
    [][ /\ onlineUsers' # onlineUsers =>
              /\ BagCardinality(tasks') >
                    BagCardinality(tasks) -
                      (IF \E t \in BagToSet(tasks) : IsPresenceBroadcast(t)
                       THEN 1 ELSE 0)
              /\ \E t \in BagToSet(tasks') :
                    t.pc = "iter" /\ t.visited = {} /\ t.online = {}
              /\ hubpc' = "select" /\ ~crashed'
              /\ \E m \in Independent :
                    \A c \in Conns :
                        send'[c] = send[c] \/ send'[c] = Append(send[c], m)
        /\ BagCardinality(tasks') < BagCardinality(tasks) =>
              \E t \in BagToSet(tasks) : IsPresenceBroadcast(t)
      ]_vars

\* A presence broadcast evicted a user's last connection: the Hub is at
\* its select and the new presence broadcast is a goroutine of its own.
C15_Witness ==
    \E c \in Conns :
        /\ hist[c].evicted
        /\ cuser[c].ID # 0
        /\ cuser[c].ID \notin DOMAIN onlineUsers
        /\ posted = 0
        /\ \E t \in BagToSet(tasks) : t.pc = "iter" /\ t.visited = {}
        /\ HubReady

\* C16: every presence_update payload is a full replacement list: the
\* list a goroutine submits equals the list of the Presence Map as it
\* stood at one moment between its launch and the end of its range, and a
\* direct snapshot equals the list of the Presence Map.
C16_FullReplacementList ==
    /\ \A t \in BagToSet(tasks) : t.pc = "send" => t.online \in t.cands
    /\ hubpc = "sendDirect" => hubArg.message.payload = Values(onlineUsers)

\* The broadcast step evicts connection c: a step that takes a broadcast
\* request while c is in the set with a full queue.
IsBroadcast == IsMsgBroadcast \/ \E t \in BagToSet(tasks) : IsPresenceBroadcast(t)
IsEvict(c) == IsBroadcast /\ c \in clients /\ ~HasRoom(send[c])

\* C17: a connection is in the Connection Set exactly from the step in
\* which the Hub takes its register request to the step in which the Hub
\* takes its first unregister request or evicts it: it enters the set only
\* by its registration, leaves only by an unregister or an eviction, and
\* each of these steps does put it in, and take it out.
C17_MembershipLifecycle ==
    /\ [](\A c \in clients : Registered(c))
    /\ [][\A c \in Conns :
             /\ IsRegister(c) => c \notin clients /\ c \in clients'
             /\ (c \notin clients /\ c \in clients') => IsRegister(c)
             /\ (IsUnregister(c) \/ IsEvict(c)) => c \notin clients'
             /\ (c \in clients /\ c \notin clients') =>
                    IsUnregister(c) \/ IsEvict(c)
          ]_vars

\* One connection was registered and has been unregistered by its
\* readPump while another one is in the set.
C17_Witness ==
    \E c, d \in Conns :
        /\ Registered(c) /\ c \notin clients
        /\ pcRead[c] = "done" /\ ~hist[c].evicted /\ ~hist[c].dupUnreg
        /\ d \in clients

\* C18: a connection that has been removed from the Connection Set is
\* never added to it again.
C18_OneShot ==
    [][\A c \in Conns :
          (Registered(c) /\ c \notin clients) => c \notin clients'
      ]_vars

\* A connection of a user was removed, and afterwards (no direct snapshot:
\* the user was offline) another connection of the same user registered.
C18_Witness ==
    \E c, d \in Conns :
        /\ c < d
        /\ cuser[c].ID = cuser[d].ID /\ cuser[c].ID # 0
        /\ Registered(c) /\ c \notin clients /\ closed[c]
        /\ d \in clients /\ ~hist[d].direct
        /\ hubpc = "select"

\* The Hub's state after unregister requests for the connections in todo.
RECURSIVE UnregisterAll(_, _)
UnregisterAll(h, todo) ==
    IF todo = {} THEN h
    ELSE LET client == CHOOSE c \in todo : TRUE
         IN  UnregisterAll(Unregister(h, client), todo \ {client})

\* C19: a broadcast that finds full queues leaves the Connection Set, the
\* two maps, the closed queues and the number of presence goroutines
\* launched as unregister requests for those connections would have left
\* them, and a single eviction gives the Hub state a single unregister
\* gives.
C19_EvictionIsUnregister ==
    /\ \A c \in clients : Evict(HubState, c) = Unregister(HubState, c)
    /\ \A m \in Independent :
          LET b == Broadcast(HubState, m)
              u == UnregisterAll(HubState,
                                 {c \in clients : ~HasRoom(send[c])})
          IN  /\ b.clients = u.clients
              /\ b.onlineUsers = u.onlineUsers
              /\ b.connectionCount = u.connectionCount
              /\ b.closed = u.closed
              /\ b.launched = u.launched
              /\ ~b.fault

\* An eviction has closed the queue of a user's only connection, taken
\* the user offline and launched a presence goroutine.
C19_Witness ==
    \E c \in Conns :
        /\ hist[c].evicted /\ closed[c] /\ c \notin clients
        /\ cuser[c].ID # 0
        /\ cuser[c].ID \notin DOMAIN connectionCount
        /\ cuser[c].ID \notin DOMAIN onlineUsers
        /\ tasks # EmptyBag

\* A register request that writes h.onlineUsers may arrive.
RegisterWrites ==
    \E c \in Conns, token \in Tokens :
        /\ NextConn(c)
        /\ InOrder(c, token)
        /\ getUserByToken(token).ok
        /\ Register(HubState, c, getUserByToken(token).user).onlineUsers
              # onlineUsers

\* C20: handling the fault of a connection c (the unregister request after
\* a failed read or write, or its eviction) leaves the membership and the
\* queue of every other connection as they are, apart from the event of
\* the broadcast that evicts, leaves the counts of other users as they
\* are, and the Hub goes on: it is back at its select, and the process is
\* not stopped by the handling of a fault.
C20_FaultIsolation ==
    [][ /\ \A c \in Conns :
              (IsUnregister(c) /\ c \in clients) =>
                  /\ \A d \in Conns \ {c} :
                        (d \in clients' <=> d \in clients) /\ send'[d] = send[d]
                  /\ \A id \in AllIds \ {cuser[c].ID} :
                        Count(connectionCount', id) = Count(connectionCount, id)
                  /\ hubpc' = "select" /\ ~crashed'
        /\ IsBroadcast =>
              /\ \A d \in Conns :
                    ~IsEvict(d) =>
                        /\ d \in clients' <=> d \in clients
                        /\ \/ d \notin clients /\ send'[d] = send[d]
                           \/ \E m \in Independent :
                                 send'[d] = Append(send[d], m)
              /\ \A id \in AllIds :
                    (\A c \in Conns : IsEvict(c) => cuser[c].ID # id) =>
                        Count(connectionCount', id) = Count(connectionCount, id)
              /\ hubpc' = "select" /\ ~crashed'
        /\ (crashed' /\ ~crashed) => RegisterWrites
      ]_vars

\* readPump of c leaves its loop on a read error and its unregister request
\* is taken by the Hub.
ReadPumpEnds(c) == pcRead[c] = "read" /\ pcRead'[c] = "done"

\* A request other than the unregister request of a readPump may arrive
\* whose handling writes h.onlineUsers.
OtherWrites ==
    \/ RegisterWrites
    \/ \E c \in Conns : /\ pcWrite[c] = "unreg"
                        /\ Unregister(HubState, c).onlineUsers # onlineUsers
    \/ /\ posted < MaxMsgs
       /\ Broadcast(HubState, NoFrame).onlineUsers # onlineUsers
    \/ \E t \in BagToSet(tasks) :
          /\ t.pc = "send"
          /\ Broadcast(HubState, PresenceEnvelope(t)).onlineUsers
                # onlineUsers

WriterStopped(c) == pcWrite[c] = "done" \/ crashed

\* C22: writePump ends once its queue is closed or a write has failed;
\* after a failed write (every write on a closed conn fails) it waits at
\* the unregister request and ends only when the Hub has taken it, and
\* from the failed write on it takes no event and writes no frame.
C22_WritePumpTerminates ==
    /\ \A c \in Conns :
          /\ (pcWrite[c] = "range" /\ closed[c]) ~> WriterStopped(c)
          /\ (pcWrite[c] = "unreg") ~> WriterStopped(c)
    /\ [][\A c \in Conns :
             /\ (pcWrite[c] = "range" /\ connClosed[c]
                   /\ send'[c] # send[c] /\ send[c] # <<>>
                   /\ send'[c] = Tail(send[c])) =>
                     pcWrite'[c] = "unreg" /\ wire'[c] = wire[c]
             /\ (pcWrite[c] = "unreg" /\ pcWrite'[c] # "unreg") =>
                     pcWrite'[c] = "done" /\ HubReady /\ connClosed'[c]
             /\ pcWrite[c] \in {"unreg", "done"} =>
                     /\ wire'[c] = wire[c]
                     /\ Len(send'[c]) >= Len(send[c])
          ]_vars

\* A writePump has ended through a failed write: its unregister request
\* was taken, and events it never wrote are left in the queue.
C22_Witness ==
    \E c \in Conns :
        /\ pcWrite[c] = "done"
        /\ hist[c].drained
        /\ send[c] # <<>>
        /\ wire[c] # CloseFrame
        /\ closed[c]

\* The transport of c is closed: c.conn.Close() has run, or the process
\* has ended.
TransportClosed(c) == connClosed[c] \/ crashed

\* C23: after a connection is evicted its writePump ends and its conn is
\* closed, and the Hub enqueues nothing more on it.
C23_EvictedIsClosed ==
    /\ \A c \in Conns :
          hist[c].evicted ~> (WriterStopped(c) /\ TransportClosed(c))
    /\ [][\A c \in Conns :
             hist[c].evicted => Len(send'[c]) <= Len(send[c])]_vars

\* An evicted connection whose writePump wrote the queued events, sent the
\* close frame and closed the conn.
C23_Witness ==
    \E c \in Conns :
        /\ hist[c].evicted
        /\ pcWrite[c] = "done"
        /\ connClosed[c]
        /\ wire[c] = CloseFrame
        /\ send[c] = <<>>
        /\ ~crashed

\* A presence_update that lists the user of c is in the queue of c.
HoldsOwnPresence(c) ==
    \E i \in PresenceAt(c) : cuser[c] \in send[c][i].payload

\* C24: every connection of a user (id # 0) that stays registered gets a
\* presence_update that lists its own user: when nothing can happen any
\* more, a registered connection from whose queue nothing was taken holds
\* one.
C24_OwnPresenceArrives ==
    \A c \in clients :
        (~ENABLED Next /\ cuser[c].ID # 0 /\ ~hist[c].drained) =>
            HoldsOwnPresence(c)

\* serveWs of c returns with the http.Error.
IsReject(c) == pcServe[c] # "rejected" /\ pcServe'[c] = "rejected"

\* C25: a connect whose token is missing or does not resolve is answered
\* with an error before a Client exists: the step changes neither h.clients
\* nor the two maps nor anything else of the Hub, the connection is never
\* registered, has no queue contents, no pumps and no user; and whoever
\* registers has a user that some token resolves to.
C25_RejectedBeforeRegister ==
    /\ [](\A c \in Conns :
            pcServe[c] = "rejected" =>
                /\ c \notin clients
                /\ cuser[c] = NoUser
                /\ send[c] = <<>> /\ ~closed[c]
                /\ pcWrite[c] = "off" /\ pcRead[c] = "off")
    /\ [][\A c \in Conns :
             /\ IsReject(c) =>
                   /\ clients' = clients
                   /\ onlineUsers' = onlineUsers
                   /\ connectionCount' = connectionCount
                   /\ tasks' = tasks
                   /\ hubpc' = hubpc
                   /\ pcServe[c] = "idle"
             /\ pcServe[c] = "rejected" => pcServe'[c] = "rejected"
             /\ IsRegister(c) =>
                   \E token \in Tokens :
                       /\ getUserByToken(token).ok
                       /\ cuser'[c] = getUserByToken(token).user
          ]_vars

\* A connect is rejected while another connection is registered and its
\* user is online.
C25_Witness ==
    \E c, d \in Conns :
        /\ pcServe[c] = "rejected"
        /\ d \in clients
        /\ cuser[d].ID \in DOMAIN onlineUsers
        /\ connectionCount[cuser[d].ID] = 1

\* A step in which a presence envelope fails to serialize: the register
\* case ends without its direct send, or a presence goroutine returns
\* without its broadcast request.
DirectDropped(c) ==
    /\ IsRegister(c)
    /\ SendsDirect(HubState, cuser'[c])
    /\ hubpc' = "select"

PresenceDropped ==
    /\ BagCardinality(tasks') < BagCardinality(tasks)
    /\ hubpc' = hubpc /\ send' = send /\ hist' = hist /\ ~crashed'

\* C26: a presence envelope that fails to serialize is dropped: the Hub is
\* back at its select and the process runs on, h.clients and both maps are
\* what the register case makes them when the envelope serializes, no
\* queue has changed, and a goroutine that drops its list changes nothing
\* of the Hub.
C26_MarshalFailureDropped ==
    [][ /\ \A c \in Conns :
              DirectDropped(c) =>
                  LET h == Register(HubState, c, cuser'[c])
                  IN  /\ clients' = h.clients
                      /\ onlineUsers' = h.onlineUsers
                      /\ connectionCount' = h.connectionCount
                      /\ c \in clients'
                      /\ connectionCount'[cuser'[c].ID]
                            = connectionCount[cuser'[c].ID] + 1
                      /\ send' = send /\ closed' = closed
                      /\ ~crashed' /\ HubReady'
        /\ PresenceDropped =>
              /\ clients' = clients
              /\ onlineUsers' = onlineUsers
              /\ connectionCount' = connectionCount
              /\ closed' = closed
              /\ hubArg' = hubArg
      ]_vars

\* Both drops have happened: a second connection of a user is registered
\* and counted without a snapshot in its queue, no goroutine is left, and
\* no presence_update was ever enqueued.
C26_Witness ==
    \E c, d \in clients :
        /\ c # d /\ cuser[c].ID = cuser[d].ID /\ cuser[c].ID # 0
        /\ connectionCount[cuser[c].ID] = 2
        /\ send[c] = <<>> /\ send[d] = <<>>
        /\ ~hist[c].drained /\ ~hist[d].drained
        /\ tasks = EmptyBag
        /\ hubpc = "select" /\ ~crashed

\* C27: the Hub handles a broadcast in one piece: in the step no
\* registration and no unregister request is applied, every connection
\* that was in h.clients when the request was received is offered the
\* event (it gets it, or it is full and evicted), no other connection is
\* touched, and whenever a register or unregister request is received the
\* Hub is at its select, not inside a broadcast.
C27_RecipientsFixed ==
    [][ /\ IsBroadcast =>
              /\ HubReady /\ hubpc' = "select"
              /\ pcServe' = pcServe /\ cuser' = cuser
              /\ pcWrite' = pcWrite /\ pcRead' = pcRead
              /\ \A c \in clients :
                    \/ /\ HasRoom(send[c])
                       /\ Len(send'[c]) = Len(send[c]) + 1
                       /\ c \in clients' /\ ~closed'[c]
                    \/ /\ ~HasRoom(send[c])
                       /\ send'[c] = send[c]
                       /\ c \notin clients' /\ closed'[c]
              /\ \A c \in Conns \ clients :
                    /\ send'[c] = send[c]
                    /\ closed'[c] = closed[c]
                    /\ c \notin clients'
        /\ \A c \in Conns :
              (IsRegister(c) \/ IsUnregister(c)) => HubReady /\ ~IsBroadcast
      ]_vars

\* A message was broadcast to the one connection registered at that time;
\* a connection registered afterwards is in the set without it.
C27_Witness ==
    \E c, d \in clients :
        /\ posted = 1
        /\ \E i \in DOMAIN send[c] : send[c][i].event = "new_message"
        /\ ~hist[d].drained
        /\ \A i \in DOMAIN send[d] : send[d][i].event # "new_message"

\* C28: h.onlineUsers[id] is the user of the registration that found the
\* count of id at zero, and no request changes the entry while it exists:
\* a later registration of the same user with another snapshot leaves it.
C28_SnapshotOfFirst ==
    /\ \A h \in Handled :
          \A id \in DOMAIN onlineUsers \cap DOMAIN h.onlineUsers :
              h.onlineUsers[id] = onlineUsers[id]
    /\ \A c \in Conns, token \in Tokens :
          LET user == getUserByToken(token).user
              h == Register(HubState, c, user)
          IN  (pcServe[c] = "idle" /\ getUserByToken(token).ok
                 /\ user.ID # 0) =>
                  /\ user.ID \in DOMAIN h.onlineUsers
                  /\ Count(connectionCount, user.ID) = 0 =>
                        h.onlineUsers[user.ID] = user
                  /\ Count(connectionCount, user.ID) > 0 =>
                        h.onlineUsers = onlineUsers

\* A user is online with two connections whose snapshots differ, and the
\* map holds the snapshot of the first.
C28_Witness ==
    \E c, d \in clients :
        /\ c < d
        /\ cuser[c].ID = cuser[d].ID
        /\ cuser[c].AvatarURL # cuser[d].AvatarURL
        /\ cuser[c].ID \in DOMAIN onlineUsers
        /\ onlineUsers[cuser[c].ID] = cuser[c]
        /\ onlineUsers[cuser[c].ID] # cuser[d]

\* C29: for every user id other than 0 the count of the id is the number
\* of its connections in h.clients, and h.connectionCount holds no entry
\* that is zero or negative.
C29_CountIsConnections ==
    /\ \A id \in UserIds :
          Count(connectionCount, id) = Cardinality(ConnsOf(id))
    /\ \A id \in DOMAIN connectionCount : connectionCount[id] > 0
    /\ DOMAIN connectionCount \subseteq UserIds

\* A user has two connections, one was removed again, and the count is
\* back at one.
C29_Witness ==
    \E c \in clients, d \in Conns \ clients :
        /\ cuser[c].ID = cuser[d].ID
        /\ cuser[c].ID # 0
        /\ closed[d]
        /\ connectionCount[cuser[c].ID] = 1

\* C30: the queue of a connection is closed exactly while the connection
\* has been registered and is no longer in h.clients: it is closed in the
\* step that removes the connection and never reopened, nothing is
\* enqueued on it afterwards, and no request that can arrive (an unregister
\* request of either pump, however often, or a broadcast, with its
\* evictions) makes the Hub close a closed queue or send on one.
C30_ClosedOnceOnRemoval ==
    /\ [](/\ \A c \in Conns :
               /\ closed[c] <=> (Registered(c) /\ c \notin clients)
               /\ ~Unregister(HubState, c).fault
               /\ ~Unregister(Unregister(HubState, c), c).fault
               /\ ~Broadcast(Unregister(HubState, c), NoFrame).fault
               /\ ~Unregister(Broadcast(HubState, NoFrame), c).fault
           /\ ~Broadcast(HubState, NoFrame).fault
           /\ hubpc = "sendDirect" => hubArg.conn \in clients)
    /\ [][\A c \in Conns :
             /\ closed[c] => closed'[c] /\ Len(send'[c]) <= Len(send[c])
             /\ (closed'[c] /\ ~closed[c])
                   <=> (c \in clients /\ c \notin clients')
          ]_vars

\* Of two connections one was closed by an eviction and then asked for
\* unregistration again, the other by an unregister request.
C30_Witness ==
    \E c, d \in Conns :
        /\ closed[c] /\ hist[c].evicted /\ hist[c].dupUnreg
        /\ closed[d] /\ ~hist[d].evicted
        /\ ~crashed

\* C31: the Hub takes an unregister request of a connection only after it
\* has handled the register request of that connection: the pumps, which
\* alone submit unregister, do not run before the registration, and a
\* connection enters h.clients only by its registration, with no pump
\* started, no unregister request made and its queue open.
C31_RegisterBeforeUnregister ==
    /\ [](\A c \in Conns :
            (pcWrite[c] # "off" \/ pcRead[c] # "off" \/ hist[c].dupUnreg
               \/ closed[c]) => Registered(c))
    /\ [][\A c \in Conns :
             /\ IsUnregister(c) => Registered(c)
             /\ (c \notin clients /\ c \in clients') =>
                   /\ IsRegister(c)
                   /\ pcWrite[c] = "off" /\ pcRead[c] = "off"
                   /\ ~closed[c] /\ ~hist[c].dupUnreg
          ]_vars

\* Both pumps of a connection have had an unregister request taken by the
\* Hub, the first while the connection was in h.clients.
C31_Witness ==
    \E c \in Conns :
        /\ pcRead[c] = "done"
        /\ pcWrite[c] = "done"
        /\ wire[c] # CloseFrame
        /\ hist[c].dupUnreg
        /\ ~hist[c].evicted

\* No queue has been closed: nobody was unregistered or evicted, so that
\* users have only been added to h.onlineUsers.
OnlyAdditions == \A c \in Conns : ~closed[c]

\* C32: the presence_update of an earlier presence change is handled
\* before that of a later one, so that no connection sees an older list
\* after a newer one: as long as users have only been added, the lists in
\* a queue from which nothing was taken grow from each to the next.
C32_PresenceInOrder ==
    \A c \in Conns :
        (OnlyAdditions /\ ~hist[c].drained) =>
            \A i, j \in PresenceAt(c) :
                i < j => send[c][i].payload \subseteq send[c][j].payload

\* The number of goroutines a step starts with `go h.broadcastPresence()`:
\* the growth of the number of goroutines, plus the one whose broadcast
\* request the step has received.
Scheduled ==
    BagCardinality(tasks') - BagCardinality(tasks)
      + (IF \E t \in BagToSet(tasks) : IsPresenceBroadcast(t) THEN 1 ELSE 0)

\* The users a request adds to or removes from h.onlineUsers.
PresenceChanges(h) ==
    (DOMAIN h.onlineUsers \ DOMAIN onlineUsers)
      \cup (DOMAIN onlineUsers \ DOMAIN h.onlineUsers)

\* C33: every request schedules as many presence broadcasts as it adds
\* users to or removes users from h.onlineUsers; a request that leaves
\* h.onlineUsers as it is schedules none.
C33_ScheduledOnChanges ==
    \A h \in Handled :
        /\ h.launched = Cardinality(PresenceChanges(h))
        /\ h.onlineUsers = onlineUsers => h.launched = 0
        /\ PresenceChanges(h) = {} => h.onlineUsers = onlineUsers

\* A second connection of a user was registered and removed again, the
\* first stays, and the only goroutine there is is the one of the first
\* registration, not yet at its first step.
C33_Witness ==
    \E c \in clients, d \in Conns \ clients :
        /\ cuser[c].ID = cuser[d].ID
        /\ cuser[c].ID \in DOMAIN onlineUsers
        /\ closed[d]
        /\ BagCardinality(tasks) = 1
        /\ \E t \in BagToSet(tasks) : t.pc = "iter" /\ t.visited = {}
        /\ ~crashed

\* C34: closing the queue of a connection (unregister or eviction) leaves
\* the events in it; writePump goes on taking them from the front one at a
\* time and writes each one unless the write fails, writes the close frame
\* only when the closed queue is empty, and then stops: a closed queue ends
\* with the loop stopped and, if the close frame was written, empty.
C34_QueuedEventsWritten ==
    /\ \A c \in Conns :
          closed[c] ~>
            \/ crashed
            \/ /\ pcWrite[c] = "done"
               /\ wire[c] = CloseFrame => send[c] = <<>>
    /\ [][\A c \in Conns :
             /\ (closed'[c] /\ ~closed[c]) => send'[c] = send[c]
             /\ (closed[c] /\ send'[c] # send[c]) =>
                   /\ send[c] # <<>>
                   /\ send'[c] = Tail(send[c])
                   /\ pcWrite[c] = "range"
                   /\ \/ wire'[c] = Head(send[c]) /\ pcWrite'[c] = "range"
                      \/ wire'[c] = wire[c] /\ pcWrite'[c] = "unreg"
             /\ (wire'[c] = CloseFrame /\ wire[c] # CloseFrame) =>
                   /\ closed[c] /\ send[c] = <<>>
                   /\ pcWrite'[c] = "done"
          ]_vars

\* The queue of a connection was closed with events in it, writePump has
\* written the last of them after the close and now finds the queue empty.
C34_Witness ==
    \E c \in Conns :
        /\ closed[c]
        /\ pcWrite[c] = "range"
        /\ send[c] = <<>>
        /\ wire[c].event = "new_message"
        /\ hist[c].evicted
        /\ ~connClosed[c]

\* The connections in h.clients whose user has id 0.
ZeroConns == {c \in clients : cuser[c].ID = 0}

\* C35: a connection whose user has id 0 is put into h.clients and gets
\* every broadcast like the others (C27), but id 0 is never a key of
\* h.onlineUsers or h.connectionCount, and registering, unregistering or
\* evicting such a connection changes neither map and starts neither a
\* presence goroutine nor a direct snapshot.
C35_ZeroUserUncounted ==
    /\ [](/\ 0 \notin DOMAIN onlineUsers
           /\ 0 \notin DOMAIN connectionCount
           /\ \A c \in Conns : cuser[c].ID = 0 => ~hist[c].direct)
    /\ [][ /\ \A c \in Conns :
                /\ (IsRegister(c) /\ cuser'[c].ID = 0) =>
                      /\ c \in clients'
                      /\ onlineUsers' = onlineUsers
                      /\ connectionCount' = connectionCount
                      /\ Scheduled = 0
                      /\ hubpc' = "select"
                /\ (IsUnregister(c) /\ cuser[c].ID = 0) =>
                      /\ c \notin clients'
                      /\ onlineUsers' = onlineUsers
                      /\ connectionCount' = connectionCount
                      /\ Scheduled = 0
           /\ IsBroadcast =>
                 /\ \A c \in ZeroConns :
                       IF HasRoom(send[c])
                       THEN Len(send'[c]) = Len(send[c]) + 1
                       ELSE c \notin clients' /\ closed'[c]
                 /\ (\A c \in clients \ ZeroConns : HasRoom(send[c])) =>
                       /\ onlineUsers' = onlineUsers
                       /\ connectionCount' = connectionCount
                       /\ Scheduled = 0
          ]_vars

\* A connection of the user with id 0 has received a presence_update and a
\* message by broadcast and was evicted on the next broadcast, with no
\* goroutine started by it.
C35_Witness ==
    \E c \in Conns :
        /\ cuser[c].ID = 0
        /\ hist[c].evicted
        /\ ~hist[c].drained
        /\ \E i \in DOMAIN send[c] : send[c][i].event = "new_message"
        /\ PresenceAt(c) # {}
        /\ tasks = EmptyBag
        /\ ~crashed

====
